---- MODULE Spec2Model ----
(***************************************************************************)
(* mmcp_client: a command-line client that frames one request for a        *)
(* device on a serial link, writes it, and reads one 16-byte response.     *)
(*                                                                         *)
(* Two specifications:                                                     *)
(*   Spec       one invocation of the program (main and run), with the     *)
(*              serial port as the environment: open, write_all and        *)
(*              read_exact each succeed or fail.                           *)
(*   CodecSpec  MsgBuilder::new followed by MsgBuilder::build on inputs    *)
(*              the command line never produces (any opcode, any payload). *)
(*                                                                         *)
(* Bytes are u8: every arithmetic step keeps its width (mod 256).          *)
(* Sequences are 1-based: the byte at frame offset k is frame[k + 1].      *)
(* The standard streams are taken to be writable: eprintln!/println!       *)
(* append to stderr/stdout and do not fail.                                *)
(***************************************************************************)
EXTENDS Integers, Sequences, FiniteSets, TLC

VARIABLES
    args,        \* CliArgs after parsing: id, echo, cmd
    pc,          \* position of the process: main, run, write, read, finish, done
    serial,      \* the result of open(): none (not tried), open, error
    bytes,       \* run: the outgoing buffer handed to write_all
    msg,         \* run: the 16-byte response buffer
    writeCalls,  \* serial: calls of write_all so far, [buf, ok]
    wire,        \* serial: the bytes that reached the port
    readCalls,   \* serial: calls of read_exact so far, [len, ok]
    stderr,      \* diagnostic output, one record per eprintln!/panic message
    stdout,      \* standard output, one line (a character sequence) per println!
    exit,        \* process outcome: running, SUCCESS, FAILURE, PANIC
    input,       \* codec: the arguments of MsgBuilder::new
    mb,          \* codec: the MsgBuilder value, or NoBuilder
    frame        \* codec: the result of build, or <<>>

vars == <<args, pc, serial, bytes, msg, writeCalls, wire, readCalls, stderr, stdout,
          exit, input, mb, frame>>

progVars == <<args, pc, serial, bytes, msg, writeCalls, wire, readCalls, stderr,
              stdout, exit>>

codecVars == <<input, mb, frame>>

-----------------------------------------------------------------------------
(* Bounds of the model and sampled input values.                           *)

\* Raw accepts a Vec<u8> of any length; lengths 0..MaxRawLen are explored.
MaxRawLen == 17

\* Destination ids (args.id: u8) explored by Spec.
IdVals == {0, 1, 3, 7, 255}

\* A byte sequence of length n: seed, seed + step, ... (mod 256).
Pattern(seed, step, n) == [i \in 1..n |-> (seed + (i - 1) * step) % 256]

\* <<seed, step>> of the byte vectors given to Raw.
RawPatterns == {<<0, 0>>, <<250, 3>>, <<1, 17>>}

\* <<seed, step>> of the responses the device may send.
RespPatterns == {<<0, 0>>, <<255, 0>>, <<16, 1>>, <<200, 3>>}

\* to, opcode and payload bytes explored by CodecSpec.
ToVals == {0, 7, 255}

OpcodeVals == {0, 101, 255}

PayloadVals == {0, 1, 255}

-----------------------------------------------------------------------------
(* The frame codec.                                                        *)

\* type L7Sdu = [u8; 8]; L7Sdu::default() is eight zero bytes.
L7Sdu_default == [i \in 1..8 |-> 0]

\* u8::wrapping_add with saturation instead of wraparound.
saturating_add(i, acc) == IF i + acc > 255 THEN 255 ELSE i + acc

\* u8::wrapping_add
wrapping_add(i, acc) == (i + acc) % 256

\* Iterator::fold(init, |i, acc| i.wrapping_add(acc)) over the bytes of s.
RECURSIVE fold(_, _)
fold(init, s) ==
    IF s = <<>> THEN init
    ELSE fold(wrapping_add(init, Head(s)), Tail(s))

\* The operator ! on a u8, bit by bit over k bits.
RECURSIVE not_bits(_, _)
not_bits(x, k) ==
    IF k = 0 THEN 0
    ELSE (1 - (x % 2)) + 2 * not_bits(x \div 2, k - 1)

not_u8(x) == not_bits(x, 8)

\* MsgBuilder::new with the version field left at 0.
MsgBuilder_new_noversion(to, opcode, l7_sdu) ==
    [to |-> to, from |-> 0, version |-> 0, hops |-> 0,
     opcode |-> opcode, l7_sdu |-> l7_sdu]

MsgBuilder_new(to, opcode, l7_sdu) ==
    [to |-> to, from |-> 0, version |-> 4, hops |-> 0,
     opcode |-> opcode, l7_sdu |-> l7_sdu]

\* build_with_checksum with payload byte 6 written twice and byte 7 dropped.
build_with_checksum_dup(self, check_sum) ==
    <<0, self.to, self.from, self.version, self.hops, self.opcode,
      self.l7_sdu[1], self.l7_sdu[2], self.l7_sdu[3], self.l7_sdu[4],
      self.l7_sdu[5], self.l7_sdu[6], self.l7_sdu[7], self.l7_sdu[7],
      check_sum, 0>>

build_with_checksum(self, check_sum) ==
    <<0, self.to, self.from, self.version, self.hops, self.opcode,
      self.l7_sdu[1], self.l7_sdu[2], self.l7_sdu[3], self.l7_sdu[4],
      self.l7_sdu[5], self.l7_sdu[6], self.l7_sdu[7], self.l7_sdu[8],
      check_sum, 0>>

build(self) ==
    LET check_sum ==
            not_u8(fold(0, <<self.to, self.from, self.version, self.hops,
                             self.opcode>> \o self.l7_sdu))
    IN  build_with_checksum(self, check_sum)

\* SetLed::as_sdu with the flag in payload byte 0 instead of byte 7.
as_sdu_first(on) ==
    IF on = "On" THEN [L7Sdu_default EXCEPT ![1] = 1] ELSE L7Sdu_default

\* SetLed::as_sdu
as_sdu(on) ==
    IF on = "On" THEN [L7Sdu_default EXCEPT ![8] = 1] ELSE L7Sdu_default

-----------------------------------------------------------------------------
(* Formatting.                                                             *)

\* The decimal digits of a natural number, most significant first
\* (Display for u8, as used by {} and, per element, by {:?}).
RECURSIVE Decimal(_)
Decimal(n) ==
    IF n < 10 THEN <<n>> ELSE Append(Decimal(n \div 10), n % 10)

\* {:?} of a byte array: the decimal rendering of each element, in order.
Debug(s) == [i \in 1..Len(s) |-> Decimal(s[i])]

-----------------------------------------------------------------------------
(* Command-line arguments.                                                 *)

RawCmd(b) == [tag |-> "Raw", bytes |-> b, on |-> "Off"]

SetLedCmd(on) == [tag |-> "SetLed", bytes |-> <<>>, on |-> on]

ReadButtonPressesCmd == [tag |-> "ReadButtonPresses", bytes |-> <<>>, on |-> "Off"]

ReadUidCmd == [tag |-> "ReadUid", bytes |-> <<>>, on |-> "Off"]

LedState == {"On", "Off"}

Command ==
    {RawCmd(Pattern(p[1], p[2], n)) : p \in RawPatterns, n \in 0..MaxRawLen}
    \cup {SetLedCmd(on) : on \in LedState}
    \cup {ReadButtonPressesCmd, ReadUidCmd}

CliArgs == [id : IdVals, echo : BOOLEAN, cmd : Command]

\* serialport::Error values, by the call that returns them.
OpenErrors == {[kind |-> "NoDevice", description |-> "open"],
               [kind |-> "Io", description |-> "open"]}

WriteErrors == {[kind |-> "Io", description |-> "write"]}

ReadErrors == {[kind |-> "Io", description |-> "timed out"],
               [kind |-> "Io", description |-> "eof"]}

Responses == {Pattern(p[1], p[2], 16) : p \in RespPatterns}

NoBuilder == [to |-> 0, from |-> 0, version |-> 0, hops |-> 0,
              opcode |-> 0, l7_sdu |-> <<>>]

NoInput == [to |-> 0, opcode |-> 0, payload |-> <<>>]

-----------------------------------------------------------------------------
(* main and run.                                                           *)

Line(kind, text) == [kind |-> kind, text |-> text]

\* main's Err arm returning ExitCode::SUCCESS and printing nothing.
Fail_silent(e) ==
    /\ stderr' = stderr
    /\ exit' = "SUCCESS"
    /\ pc' = "done"

\* main's Err arm: eprintln!("Error({:?}): {}", e.kind, e.description) and
\* ExitCode::FAILURE.  Every `?` of run and a failed open end here.
Fail(e) ==
    /\ stderr' = Append(stderr, Line("Error", <<e.kind, e.description>>))
    /\ exit' = "FAILURE"
    /\ pc' = "done"

\* main: serialport::new(..).timeout(..).open() succeeded; run is entered.
OpenOk ==
    /\ pc = "main"
    /\ serial' = "open"
    /\ pc' = "run"
    /\ UNCHANGED <<args, bytes, msg, writeCalls, wire, readCalls, stderr,
                   stdout, exit, codecVars>>

\* main: open() failed; and_then does not call run.
OpenErr ==
    /\ pc = "main"
    /\ serial' = "error"
    /\ \E e \in OpenErrors : Fail(e)
    /\ UNCHANGED <<args, bytes, msg, writeCalls, wire, readCalls, stdout,
                   codecVars>>

\* Raw bytes padded with zeros or cut to one 16-byte frame.
Outgoing_framed(a) ==
    CASE a.cmd.tag = "Raw" ->
           [i \in 1..16 |-> IF i <= Len(a.cmd.bytes) THEN a.cmd.bytes[i] ELSE 0]
      [] a.cmd.tag = "SetLed" ->
           build(MsgBuilder_new(a.id, 100, as_sdu(a.cmd.on)))
      [] a.cmd.tag = "ReadButtonPresses" ->
           build(MsgBuilder_new(a.id, 101, L7Sdu_default))

\* run: the buffer each transmitting command hands to write_all.
Outgoing(a) ==
    CASE a.cmd.tag = "Raw" -> a.cmd.bytes
      [] a.cmd.tag = "SetLed" ->
           build(MsgBuilder_new(a.id, 100, as_sdu(a.cmd.on)))
      [] a.cmd.tag = "ReadButtonPresses" ->
           build(MsgBuilder_new(a.id, 101, L7Sdu_default))

\* run: what is printed to stderr before write_all.
Preamble(a, b) ==
    IF a.cmd.tag = "Raw"
    THEN IF Len(b) # 16 THEN <<Line("WARNING", <<>>)>> ELSE <<>>
    ELSE IF a.echo THEN <<Line("MSG", Debug(b))>> ELSE <<>>

\* run, up to the write: the response buffer is zeroed, the outgoing bytes
\* are chosen by the command, the warning or the echo of the frame is printed.
RunPrepare ==
    /\ pc = "run"
    /\ args.cmd.tag # "ReadUid"
    /\ msg' = [i \in 1..16 |-> 0]
    /\ bytes' = Outgoing(args)
    /\ stderr' = stderr \o Preamble(args, bytes')
    /\ pc' = "write"
    /\ UNCHANGED <<args, serial, writeCalls, wire, readCalls, stdout, exit, codecVars>>

\* Command::ReadUid as an empty arm: falls through to the end of run.
RunTodo_silent ==
    /\ pc = "run"
    /\ args.cmd.tag = "ReadUid"
    /\ msg' = [i \in 1..16 |-> 0]
    /\ pc' = "finish"
    /\ UNCHANGED <<args, serial, bytes, writeCalls, wire, readCalls, stderr, stdout,
                   exit, codecVars>>

\* run: Command::ReadUid => todo!() panics; the process ends with the panic
\* message and the panic exit status.
RunTodo ==
    /\ pc = "run"
    /\ args.cmd.tag = "ReadUid"
    /\ msg' = [i \in 1..16 |-> 0]
    /\ stderr' = Append(stderr, Line("panic", <<"not yet implemented">>))
    /\ exit' = "PANIC"
    /\ pc' = "done"
    /\ UNCHANGED <<args, serial, bytes, writeCalls, wire, readCalls, stdout, codecVars>>

\* run: serial.write_all(&bytes) returned Ok: every byte reached the port.
RunWriteOk ==
    /\ pc = "write"
    /\ writeCalls' = Append(writeCalls, [buf |-> bytes, ok |-> TRUE])
    /\ wire' = wire \o bytes
    /\ pc' = "read"
    /\ UNCHANGED <<args, serial, bytes, msg, readCalls, stderr, stdout, exit, codecVars>>

\* run: serial.write_all(&bytes)? returned Err after k < len bytes reached the
\* port (write_all of an empty buffer makes no call and cannot fail).
RunWriteErr ==
    /\ pc = "write"
    /\ bytes # <<>>
    /\ \E k \in 0..(Len(bytes) - 1), e \in WriteErrors :
          /\ writeCalls' = Append(writeCalls, [buf |-> bytes, ok |-> FALSE])
          /\ wire' = wire \o SubSeq(bytes, 1, k)
          /\ Fail(e)
    /\ UNCHANGED <<args, serial, bytes, msg, readCalls, stdout, codecVars>>

\* run: serial.read_exact(&mut msg) returned Ok: msg holds 16 response bytes.
RunReadOk ==
    /\ pc = "read"
    /\ \E r \in Responses : msg' = r
    /\ readCalls' = Append(readCalls, [len |-> Len(msg), ok |-> TRUE])
    /\ pc' = "finish"
    /\ UNCHANGED <<args, serial, bytes, writeCalls, wire, stderr, stdout, exit, codecVars>>

\* A failed read_exact answered by sending the request again.
RunReadErr_retry ==
    /\ pc = "read"
    /\ Len(readCalls) < 2
    /\ readCalls' = Append(readCalls, [len |-> Len(msg), ok |-> FALSE])
    /\ pc' = "write"
    /\ UNCHANGED <<args, serial, bytes, msg, writeCalls, wire, stderr, stdout, exit,
                   codecVars>>

\* run: serial.read_exact(&mut msg)? returned Err (timeout or end of input)
\* after k < 16 bytes arrived; msg holds those k bytes and is dropped.
RunReadErr ==
    /\ pc = "read"
    /\ \E r \in Responses, k \in 0..(Len(msg) - 1), e \in ReadErrors :
          /\ msg' = [i \in 1..Len(msg) |-> IF i <= k THEN r[i] ELSE msg[i]]
          /\ Fail(e)
    /\ readCalls' = Append(readCalls, [len |-> Len(msg), ok |-> FALSE])
    /\ UNCHANGED <<args, serial, bytes, writeCalls, wire, stdout, codecVars>>

\* The button count taken from the checksum offset, 14.
ButtonCount_at14(m) == m[15]

\* run: msg[13], the byte ReadButtonPresses prints.
ButtonCount(m) == m[14]

\* run after a successful read, and main's Ok arm: the button count on
\* stdout (ReadButtonPresses), the response on stderr (echo), Ok(()),
\* ExitCode::SUCCESS.
RunFinish ==
    /\ pc = "finish"
    /\ stdout' = IF args.cmd.tag = "ReadButtonPresses"
                 THEN Append(stdout, Decimal(ButtonCount(msg)))
                 ELSE stdout
    /\ stderr' = IF args.echo
                 THEN Append(stderr, Line("Response", Debug(msg)))
                 ELSE stderr
    /\ exit' = "SUCCESS"
    /\ pc' = "done"
    /\ UNCHANGED <<args, serial, bytes, msg, writeCalls, wire, readCalls, codecVars>>

Init ==
    /\ args \in CliArgs
    /\ pc = "main"
    /\ serial = "none"
    /\ bytes = <<>>
    /\ msg = <<>>
    /\ writeCalls = <<>>
    /\ wire = <<>>
    /\ readCalls = <<>>
    /\ stderr = <<>>
    /\ stdout = <<>>
    /\ exit = "running"
    /\ input = NoInput
    /\ mb = NoBuilder
    /\ frame = <<>>

Next ==
    \/ OpenOk
    \/ OpenErr
    \/ RunPrepare
    \/ RunTodo
    \/ RunWriteOk
    \/ RunWriteErr
    \/ RunReadOk
    \/ RunReadErr
    \/ RunFinish

Spec == Init /\ [][Next]_vars

-----------------------------------------------------------------------------
(* The codec on its own: MsgBuilder::new(to, opcode, payload).build().     *)

CodecInputs == [to : ToVals, opcode : OpcodeVals, payload : [1..8 -> PayloadVals]]

CodecNew ==
    /\ mb = NoBuilder
    /\ mb' = MsgBuilder_new(input.to, input.opcode, input.payload)
    /\ UNCHANGED <<input, frame, progVars>>

CodecBuild ==
    /\ mb # NoBuilder
    /\ frame = <<>>
    /\ frame' = build(mb)
    /\ UNCHANGED <<input, mb, progVars>>

CodecInit ==
    /\ input \in CodecInputs
    /\ mb = NoBuilder
    /\ frame = <<>>
    /\ args = [id |-> 0, echo |-> FALSE, cmd |-> ReadUidCmd]
    /\ pc = "idle"
    /\ serial = "none"
    /\ bytes = <<>>
    /\ msg = <<>>
    /\ writeCalls = <<>>
    /\ wire = <<>>
    /\ readCalls = <<>>
    /\ stderr = <<>>
    /\ stdout = <<>>
    /\ exit = "running"

CodecNext ==
    \/ CodecNew
    \/ CodecBuild

CodecSpec == CodecInit /\ [][CodecNext]_vars

-----------------------------------------------------------------------------
(* Properties of the codec, checked under CodecSpec.                       *)

\* The sum of a byte sequence over the integers (no wraparound).
RECURSIVE Sum(_)
Sum(s) == IF s = <<>> THEN 0 ELSE Head(s) + Sum(Tail(s))

Built == frame # <<>>

\* C1: byte 14 of the built frame is 255 minus the mod-256 sum of
\* to, from (0), version (4), hops (0), opcode and the eight payload bytes:
\* the sum wraps, the accumulator starts at 0, the complement is applied
\* once, after the fold.
C1_Checksum ==
    Built =>
        frame[15] = 255 - ((input.to + 0 + 4 + 0 + input.opcode
                            + Sum(input.payload)) % 256)

\* C1 witness: a built frame whose byte sum exceeds 255 several times over,
\* so that wrapping and saturating sums differ.
C1_Witness ==
    /\ Built
    /\ input.to + 4 + input.opcode + Sum(input.payload) > 3 * 256
    /\ frame[15] # 0

\* C2: build returns 16 bytes: offsets 0 and 15 are 0, offset 1 is to,
\* offset 2 is 0, offset 3 is 4, offset 4 is 0, offset 5 is opcode, offsets
\* 6..13 are the payload in order; and every input gets its frame (none is
\* rejected: until the frame is built the next step is enabled).
C2_Layout ==
    /\ Built =>
        /\ Len(frame) = 16
        /\ frame[1] = 0
        /\ frame[16] = 0
        /\ frame[2] = input.to
        /\ frame[3] = 0
        /\ frame[4] = 4
        /\ frame[5] = 0
        /\ frame[6] = input.opcode
        /\ \A i \in 1..8 : frame[6 + i] = input.payload[i]
    /\ ~Built => ENABLED CodecNext

\* C2 witness: a frame built for an opcode no command uses, with payload
\* bytes of every sampled value.
C2_Witness ==
    /\ Built
    /\ input.opcode = 255
    /\ input.to = 255
    /\ {input.payload[i] : i \in 1..8} = PayloadVals

\* Reading the caller's fields back from a frame, as the round trip of C9
\* defines it: to at offset 1, opcode at offset 5, payload at offsets 6..13.
Decode(f) ==
    [to |-> f[2], opcode |-> f[6], payload |-> [i \in 1..8 |-> f[6 + i]]]

Encode(x) == build(MsgBuilder_new(x.to, x.opcode, x.payload))

\* Inputs next to x: to or opcode replaced, one payload byte complemented,
\* to and opcode exchanged, or two adjacent payload bytes exchanged (the
\* last two keep the checksum).
NearInputs(x) ==
    {[x EXCEPT !.to = t] : t \in ToVals}
    \cup {[x EXCEPT !.opcode = c] : c \in OpcodeVals}
    \cup {[x EXCEPT !.payload[i] = 255 - x.payload[i]] : i \in 1..8}
    \cup {[x EXCEPT !.to = x.opcode, !.opcode = x.to]}
    \cup {[x EXCEPT !.payload[i] = x.payload[i + 1],
                    !.payload[i + 1] = x.payload[i]] : i \in 1..7}

\* C9: decoding the built frame recovers to, opcode and payload, and no
\* different input next to this one encodes to the same frame.
C9_RoundTrip ==
    Built =>
        /\ Decode(frame) = input
        /\ \A o \in NearInputs(input) : Encode(o) = frame => o = input

\* C9 witness: a built frame with a neighbour that has the same checksum
\* and still another frame.
C9_Witness ==
    /\ Built
    /\ \E o \in NearInputs(input) :
          /\ o # input
          /\ Encode(o)[15] = frame[15]
          /\ Encode(o) # frame

-----------------------------------------------------------------------------
(* Properties of one invocation, checked under Spec.                       *)

Tag == args.cmd.tag

Transmits == Tag \in {"Raw", "SetLed", "ReadButtonPresses"}

\* run has been entered and has passed the match on the command.
Dispatched == pc \in {"write", "read", "finish", "done"} /\ serial = "open"

WriteOk == Len(writeCalls) = 1 /\ writeCalls[1].ok

WriteFailed == \E i \in 1..Len(writeCalls) : ~writeCalls[i].ok

ReadOk == Len(readCalls) = 1 /\ readCalls[1].ok

ReadFailed == \E i \in 1..Len(readCalls) : ~readCalls[i].ok

LinesOf(kind) == {i \in 1..Len(stderr) : stderr[i].kind = kind}

\* s is a prefix of t, shorter than t.
StrictPrefix(s, t) == Len(s) < Len(t) /\ s = SubSeq(t, 1, Len(s))

\* The number a sequence of decimal digits denotes.
RECURSIVE DigitsValue(_)
DigitsValue(d) ==
    IF d = <<>> THEN 0
    ELSE 10 * DigitsValue(SubSeq(d, 1, Len(d) - 1)) + d[Len(d)]

\* The frame C3 expects of SetLed: opcode 100, payload byte 7 the state.
SetLedFrame(id, on) ==
    LET flag == IF on = "On" THEN 1 ELSE 0
    IN  <<0, id, 0, 4, 0, 100, 0, 0, 0, 0, 0, 0, 0, flag,
          255 - ((id + 0 + 4 + 0 + 100 + flag) % 256), 0>>

\* C3: SetLed hands write_all the frame with opcode 100 whose payload byte 7
\* is 1 for On and 0 for Off, the other payload bytes 0, with the checksum
\* of that content; a successful write puts exactly that frame on the port;
\* once run has passed the match, the write has been or is about to be made.
\* SetLed(On) to 7 and SetLed(Off) to 1 write the two frames of the spec.
C3_SetLed ==
    Tag = "SetLed" =>
        /\ \A i \in 1..Len(writeCalls) :
              writeCalls[i].buf = SetLedFrame(args.id, args.cmd.on)
        /\ WriteOk => wire = SetLedFrame(args.id, args.cmd.on)
        /\ (Dispatched /\ pc # "write") => Len(writeCalls) = 1
        /\ (WriteOk /\ args.id = 7 /\ args.cmd.on = "On") =>
              wire = <<0, 7, 0, 4, 0, 100, 0, 0, 0, 0, 0, 0, 0, 1, 143, 0>>
        /\ (WriteOk /\ args.id = 1 /\ args.cmd.on = "Off") =>
              wire = <<0, 1, 0, 4, 0, 100, 0, 0, 0, 0, 0, 0, 0, 0, 150, 0>>

\* C3 witness: SetLed(On) to 7 has been written.
C3_Witness ==
    /\ Tag = "SetLed"
    /\ args.id = 7
    /\ args.cmd.on = "On"
    /\ WriteOk
    /\ wire[14] = 1

\* The frame C4 expects of ReadButtonPresses: opcode 101, payload zero.
ReadButtonPressesFrame(id) ==
    <<0, id, 0, 4, 0, 101, 0, 0, 0, 0, 0, 0, 0, 0,
      255 - ((id + 0 + 4 + 0 + 101) % 256), 0>>

\* C4: ReadButtonPresses hands write_all the frame with opcode 101 and a
\* zero payload (to 3: the frame of the spec); the one line it prints is the
\* decimal value of offset 13 of the 16-byte response read; the line is
\* there when the invocation succeeded, and only after the write and the read
\* both succeeded.
C4_ReadButtonPresses ==
    Tag = "ReadButtonPresses" =>
        /\ \A i \in 1..Len(writeCalls) :
              writeCalls[i].buf = ReadButtonPressesFrame(args.id)
        /\ WriteOk => wire = ReadButtonPressesFrame(args.id)
        /\ (WriteOk /\ args.id = 3) =>
              wire = <<0, 3, 0, 4, 0, 101, 0, 0, 0, 0, 0, 0, 0, 0, 147, 0>>
        /\ stdout # <<>> =>
              /\ WriteOk
              /\ ReadOk
              /\ Len(msg) = 16
              /\ Len(stdout) = 1
              /\ DigitsValue(stdout[1]) = msg[14]
        /\ exit = "SUCCESS" => stdout # <<>>
        /\ (WriteFailed \/ ReadFailed) => stdout = <<>>

\* C4 witness: a count was printed from a response whose offsets 13 and 14
\* differ and whose offset 13 has three digits.
C4_Witness ==
    /\ Tag = "ReadButtonPresses"
    /\ args.id = 3
    /\ stdout # <<>>
    /\ msg[14] # msg[15]
    /\ msg[14] >= 100

\* C5: once run has taken the Raw arm, the buffer handed to write_all is the
\* caller's byte vector; a successful write puts exactly those bytes on the
\* port and a failed one a proper prefix of them; the warning is printed
\* (once) exactly when the length is not 16; the write is made whatever the
\* length; the invocation fails only when open, write or read failed.
C5_Raw ==
    Tag = "Raw" =>
        /\ \A i \in 1..Len(writeCalls) : writeCalls[i].buf = args.cmd.bytes
        /\ WriteOk => wire = args.cmd.bytes
        /\ WriteFailed => StrictPrefix(wire, args.cmd.bytes)
        /\ Dispatched =>
              Cardinality(LinesOf("WARNING")) =
                  IF Len(args.cmd.bytes) # 16 THEN 1 ELSE 0
        /\ ~Dispatched => LinesOf("WARNING") = {}
        /\ (Dispatched /\ pc # "write") => Len(writeCalls) = 1
        /\ (pc = "done" /\ WriteOk /\ ReadOk) => exit = "SUCCESS"
        /\ exit = "FAILURE" => (serial = "error" \/ WriteFailed \/ ReadFailed)

\* C5 witness: 15 bytes were given, warned about, written unchanged, and
\* the invocation succeeded.
C5_Witness ==
    /\ Tag = "Raw"
    /\ Len(args.cmd.bytes) = 15
    /\ args.cmd.bytes[15] # 0
    /\ LinesOf("WARNING") # {}
    /\ wire = args.cmd.bytes
    /\ exit = "SUCCESS"

\* C6: ReadUid never writes, never reads and never ends in success; once the
\* port is open its next step ends the process with the panic message.
C6_ReadUid ==
    Tag = "ReadUid" =>
        /\ writeCalls = <<>>
        /\ wire = <<>>
        /\ readCalls = <<>>
        /\ exit # "SUCCESS"
        /\ pc \in {"main", "run", "done"}
        /\ (pc = "done" /\ serial = "open") =>
              /\ exit = "PANIC"
              /\ LinesOf("panic") # {}

\* C6 witness: ReadUid ran and panicked.
C6_Witness ==
    /\ Tag = "ReadUid"
    /\ serial = "open"
    /\ exit = "PANIC"

\* C7: a transmitting command makes at most one write and at most one read,
\* the read only after the write succeeded and always for 16 bytes; a failed
\* write ends the invocation with no read, a failed read ends it too.
C7_OneExchange ==
    Transmits =>
        /\ Len(writeCalls) <= 1
        /\ Len(readCalls) <= 1
        /\ readCalls # <<>> => WriteOk
        /\ \A i \in 1..Len(readCalls) : readCalls[i].len = 16
        /\ WriteFailed => (readCalls = <<>> /\ pc = "done")
        /\ ReadFailed => pc = "done"
        /\ pc = "done" => ~ENABLED Next

\* C7 witness: the read failed after a successful write.
C7_Witness ==
    /\ Transmits
    /\ WriteOk
    /\ ReadFailed
    /\ pc = "done"

\* The last line of stderr is main's error line for an error of errs.
LastIsError(errs) ==
    /\ stderr # <<>>
    /\ stderr[Len(stderr)].kind = "Error"
    /\ stderr[Len(stderr)].text \in {<<e.kind, e.description>> : e \in errs}

\* C8: the process ends with SUCCESS exactly when the port opened, the write
\* succeeded and the read succeeded; a failed open, write or read prints the
\* error's kind and description and ends with FAILURE; after a failed open
\* run was not entered: nothing was prepared, written or read.
C8_Exit ==
    /\ pc = "done" =>
          (exit = "SUCCESS" <=> (serial = "open" /\ WriteOk /\ ReadOk))
    /\ pc # "done" => exit = "running"
    /\ serial = "error" =>
          /\ exit = "FAILURE"
          /\ LastIsError(OpenErrors)
          /\ bytes = <<>>
          /\ msg = <<>>
          /\ writeCalls = <<>>
          /\ wire = <<>>
          /\ readCalls = <<>>
    /\ WriteFailed => (exit = "FAILURE" /\ LastIsError(WriteErrors))
    /\ ReadFailed => (exit = "FAILURE" /\ LastIsError(ReadErrors))

\* C8 witness: the read timed out and the process failed.
C8_Witness ==
    /\ ReadFailed
    /\ exit = "FAILURE"
    /\ stderr[Len(stderr)].text[2] = "timed out"

\* C10: with echo set, every transmitting command has printed the outgoing
\* frame by the time it is written and prints the 16 response bytes after a
\* successful read; without echo neither is printed; the bytes written do
\* not depend on the flag.
C10_Echo ==
    Transmits =>
        /\ (args.echo /\ writeCalls # <<>>) =>
              \E i \in LinesOf("MSG") : stderr[i].text = Debug(writeCalls[1].buf)
        /\ (args.echo /\ exit = "SUCCESS") =>
              \E i \in LinesOf("Response") : stderr[i].text = Debug(msg)
        /\ ~args.echo => (LinesOf("MSG") = {} /\ LinesOf("Response") = {})
        /\ \A i \in 1..Len(writeCalls) :
              writeCalls[i].buf = Outgoing([args EXCEPT !.echo = ~args.echo])

====
